---- MODULE Spec2Model ----
(***************************************************************************)
(* A model of so8_supergravity.py: the tensor builders (permutation_sign,  *)
(* Spin8, SU8, get_proj_35_8888), the critical-point scanner closure and   *)
(* the scan_many driver.  Each component has a specification of its own;   *)
(* the variables of the components a specification does not run keep the   *)
(* values Idle gives them.                                                 *)
(***************************************************************************)
EXTENDS Integers, Sequences, FiniteSets, TLC

VARIABLES
  \* scan_many (lines 351-362)
  num_to_produce, threshold, seed, ret, calls, scan_pc, returned,
  \* permutation_sign (lines 48-56)
  lists, qref, perm_n, parity, swaps, perm_pc, perm_in,
  \* Spin8 (lines 59-112) and SU8 (lines 115-145)
  entries, entry_no, gamma_vsc, gamma_vvss, gamma_vvcc,
  m_35_8_8, m_28_8_8, t_aij, su8_no, build_pc,
  \* get_proj_35_8888 (lines 216-244)
  want_selfdual, proj_ret, num_sd, abcd_no, proj_pc, proj_out,
  \* call_with_critical_point_scanner (lines 315-345)
  normal, minimize, t_v70, n_ret, last_call, sess_pc

scanVars == <<num_to_produce, threshold, seed, ret, calls, scan_pc, returned>>
permVars == <<lists, qref, perm_n, parity, swaps, perm_pc, perm_in>>
buildVars == <<entries, entry_no, gamma_vsc, gamma_vvss, gamma_vvcc,
               m_35_8_8, m_28_8_8, t_aij, su8_no, build_pc>>
projVars == <<want_selfdual, proj_ret, num_sd, abcd_no, proj_pc, proj_out>>
sessVars == <<normal, minimize, t_v70, n_ret, last_call, sess_pc>>
vars == <<scanVars, permVars, buildVars, projVars, sessVars>>

(***************************************************************************)
(* Bounds of the model.                                                    *)
(***************************************************************************)
\* scan_many is called with num_to_produce in 0..MaxProduce.
MaxProduce == 2
\* The driver's loop is unbounded; the model stops calling at seed MaxSeed.
MaxSeed == 3
\* permutation_sign is applied to the permutations of 0..n-1, n <= MaxN.
MaxN == 4
\* The session is driven with seeds 1..MaxSessSeed and v70 vectors 0..MaxPoint.
MaxSessSeed == 2
MaxPoint == 1

(***************************************************************************)
(* Floating-point values.  A double is <<"fin", n>>, <<"inf", 0>> (+inf)   *)
(* or <<"nan", 0>>.  A finite stationarity n stands for n * 1e-4, so that  *)
(* the threshold 1e-3 of line 358 is <<"fin", 10>>.                        *)
(***************************************************************************)
Fin(n) == <<"fin", n>>
Inf == <<"inf", 0>>
NaN == <<"nan", 0>>
IsFinite(x) == x[1] = "fin"

\* IEEE-754 `a < b` as Python evaluates it on line 358: false whenever an
\* operand is NaN, and +inf is below nothing.
FloatLessOrEqual(a, b) ==
  /\ a[1] # "nan" /\ b[1] # "nan"
  /\ \/ b[1] = "inf"
     \/ a[1] = "fin" /\ b[1] = "fin" /\ a[2] <= b[2]
FloatLess(a, b) ==
  /\ a[1] # "nan" /\ b[1] # "nan"
  /\ a[1] = "fin"
  /\ \/ b[1] = "inf"
     \/ b[1] = "fin" /\ a[2] < b[2]

\* The literal 1e-3 of line 358, in units of 1e-4.
ThresholdUnits == 10
Threshold == Fin(ThresholdUnits)
\* The literal scale=2.0 of line 356.
ScaleArg == 2

(***************************************************************************)
(* scan_many(scanner, num_to_produce), lines 351-362.  The scanner is an   *)
(* argument: any callable returning (potential, stationarity, v70).  What  *)
(* the session evaluates for the attempt (sess.run on line 343) is drawn   *)
(* from Evaluations; the closure returns it as it is (line 344).           *)
(***************************************************************************)
StatValues ==
  {Fin(0), Fin(ThresholdUnits - 1), Fin(ThresholdUnits), Fin(ThresholdUnits + 1), Inf, NaN}
PotValues == {Fin(0 - 6), NaN}
Evaluation(pot, stat, s) == [potential |-> pot, stationarity |-> stat, v70 |-> s]
\* A non-finite A1 or A2 makes the stationarity, a sum of squares of their
\* products (lines 252-262), non-finite too: a non-finite potential comes
\* with a non-finite stationarity.
Evaluations(s) ==
  {e \in {Evaluation(pot, stat, s) : pot \in PotValues, stat \in StatValues} :
     IsFinite(e.stationarity) => IsFinite(e.potential)}

\* Lines 343-344: n_ret = sess.run([...]); return n_ret.
ScannerReturnDowngraded(evaluated) ==
  IF IsFinite(evaluated.stationarity) THEN evaluated
  ELSE [evaluated EXCEPT !.stationarity = Inf]
ScannerReturn(evaluated) == evaluated

\* Line 358: if stationarity < 1e-3 (the threshold is a variable of the
\* model so that the configurable driver of the design can be stated).
Accepted(scanned, thr) == FloatLess(scanned.stationarity, thr)

ScanInitWith(n, thr) ==
  /\ num_to_produce = n
  /\ threshold = thr
  /\ seed = 0
  /\ ret = <<>>
  /\ calls = <<>>
  /\ scan_pc = "loop"
  /\ returned = <<>>

\* Lines 354-361: one iteration of the while loop.
ScanAttemptPrepend ==
  /\ scan_pc = "loop"
  /\ Len(ret) < num_to_produce
  /\ seed < MaxSeed
  /\ \E evaluated \in Evaluations(seed + 1) :
       LET scanned == ScannerReturn(evaluated) IN
       /\ seed' = seed + 1
       /\ calls' = Append(calls, [seed |-> seed + 1, scale |-> ScaleArg,
                                  evaluated |-> evaluated, scanned |-> scanned])
       /\ ret' = IF Accepted(scanned, threshold) THEN <<scanned>> \o ret ELSE ret
  /\ UNCHANGED <<num_to_produce, threshold, scan_pc, returned>>
ScanAttempt ==
  /\ scan_pc = "loop"
  /\ Len(ret) < num_to_produce
  /\ seed < MaxSeed
  /\ \E evaluated \in Evaluations(seed + 1) :
       LET scanned == ScannerReturn(evaluated) IN
       /\ seed' = seed + 1
       /\ calls' = Append(calls, [seed |-> seed + 1, scale |-> ScaleArg,
                                  evaluated |-> evaluated, scanned |-> scanned])
       /\ ret' = IF Accepted(scanned, threshold) THEN Append(ret, scanned) ELSE ret
  /\ UNCHANGED <<num_to_produce, threshold, scan_pc, returned>>

\* Lines 354 and 362: the loop condition fails and the list is returned.
ScanReturn ==
  /\ scan_pc = "loop"
  /\ ~(Len(ret) < num_to_produce)
  /\ scan_pc' = "done"
  /\ returned' = ret
  /\ UNCHANGED <<num_to_produce, threshold, seed, ret, calls>>

ScanIdle == ScanInitWith(0, Threshold)

(***************************************************************************)
(* permutation_sign(p), lines 48-56.  Python lists are sequences here, so  *)
(* the list element q[i] is At0(q, i).  `lists` is the heap: the caller's  *)
(* list p and the list built on line 49; qref names the list the local     *)
(* name q is bound to.                                                     *)
(***************************************************************************)
At0(l, i) == l[i + 1]
Put0(l, i, x) == [l EXCEPT ![i + 1] = x]

\* Lines 53-54: qn = q[n]; q[n], q[qn] = q[qn], q[n].  The right-hand side
\* is evaluated first, then q[n] and q[qn] are stored in that order.
SwapStepLateIndex(q, n) ==
  LET rhs == <<At0(q, At0(q, n)), At0(q, n)>>
      q1 == Put0(q, n, rhs[1])
  IN  Put0(q1, At0(q1, n), rhs[2])
SwapStep(q, n) ==
  LET qn == At0(q, n)
      rhs == <<At0(q, qn), At0(q, n)>>
      q1 == Put0(q, n, rhs[1])
  IN  Put0(q1, qn, rhs[2])

\* The whole function as an operator, for the builders that call it.
RECURSIVE PermLoop(_, _, _)
PermLoop(q, n, par) ==
  IF n = Len(q) THEN par
  ELSE IF n # At0(q, n) THEN PermLoop(SwapStep(q, n), n, 0 - par)
  ELSE PermLoop(q, n + 1, par)
permutation_sign(p) == PermLoop(p, 0, 1)

PermutationsOf(n) ==
  {s \in [1..n -> 0..(n - 1)] : \A i, j \in 1..n : s[i] = s[j] => i = j}

PermInit ==
  /\ \E n \in 0..MaxN : \E p \in PermutationsOf(n) :
       /\ lists = [p |-> p, q |-> <<>>]
       /\ perm_in = p
  /\ qref = "none"
  /\ perm_n = 0
  /\ parity = 0
  /\ swaps = 0
  /\ perm_pc = "copy"

\* Lines 49-50: q = [x for x in p]; parity = 1.
PermCopy ==
  /\ perm_pc = "copy"
  /\ lists' = [lists EXCEPT !.q = lists.p]
  /\ qref' = "q"
  /\ parity' = 1
  /\ perm_n' = 0
  /\ perm_pc' = "for"
  /\ UNCHANGED <<swaps, perm_in>>

\* Lines 52-55: one iteration of the while loop.
PermSwap ==
  /\ perm_pc = "for"
  /\ perm_n < Len(lists.p)
  /\ perm_n # At0(lists[qref], perm_n)
  /\ lists' = [lists EXCEPT ![qref] = SwapStep(lists[qref], perm_n)]
  /\ parity' = 0 - parity
  /\ swaps' = swaps + 1
  /\ UNCHANGED <<qref, perm_n, perm_pc, perm_in>>

\* Lines 51-52: the while condition fails; the for loop takes the next n.
PermAdvance ==
  /\ perm_pc = "for"
  /\ perm_n < Len(lists.p)
  /\ perm_n = At0(lists[qref], perm_n)
  /\ perm_n' = perm_n + 1
  /\ UNCHANGED <<lists, qref, parity, swaps, perm_pc, perm_in>>

\* Lines 51 and 56: range(len(p)) is exhausted; return parity.
PermReturn ==
  /\ perm_pc = "for"
  /\ perm_n = Len(lists.p)
  /\ perm_pc' = "done"
  /\ UNCHANGED <<lists, qref, perm_n, parity, swaps, perm_in>>

PermIdle ==
  /\ lists = [p |-> <<>>, q |-> <<>>]
  /\ perm_in = <<>>
  /\ qref = "none"
  /\ perm_n = 0
  /\ parity = 0
  /\ swaps = 0
  /\ perm_pc = "idle"

(***************************************************************************)
(* Spin8, lines 59-112.  An array is a function of its first index to a    *)
(* function of its second index, and so on: arr[i][j][k].  A token of the  *)
(* literal table is the sequence of its characters.  gamma_vvss and        *)
(* gamma_vvcc hold halves: the rational n/2 is <<n, 2>>.  The 4-form       *)
(* tensors of lines 81-93 are not modelled.                                *)
(***************************************************************************)
R8 == 0..7
Idx3 == R8 \X R8 \X R8
Idx4 == R8 \X R8 \X R8 \X R8

\* Lines 99-107: entries.split().
Entries == <<
    <<"0","0","7","+">>, <<"0","1","6","-">>, <<"0","2","5","-">>, <<"0","3","4","+">>, <<"0","4","3","-">>, <<"0","5","2","+">>, <<"0","6","1","+">>, <<"0","7","0","-">>,
    <<"1","0","1","+">>, <<"1","1","0","-">>, <<"1","2","3","-">>, <<"1","3","2","+">>, <<"1","4","5","+">>, <<"1","5","4","-">>, <<"1","6","7","-">>, <<"1","7","6","+">>,
    <<"2","0","4","+">>, <<"2","1","5","-">>, <<"2","2","6","+">>, <<"2","3","7","-">>, <<"2","4","0","-">>, <<"2","5","1","+">>, <<"2","6","2","-">>, <<"2","7","3","+">>,
    <<"3","0","2","+">>, <<"3","1","3","+">>, <<"3","2","0","-">>, <<"3","3","1","-">>, <<"3","4","6","-">>, <<"3","5","7","-">>, <<"3","6","4","+">>, <<"3","7","5","+">>,
    <<"4","0","3","+">>, <<"4","1","2","-">>, <<"4","2","1","+">>, <<"4","3","0","-">>, <<"4","4","7","+">>, <<"4","5","6","-">>, <<"4","6","5","+">>, <<"4","7","4","-">>,
    <<"5","0","5","+">>, <<"5","1","4","+">>, <<"5","2","7","+">>, <<"5","3","6","+">>, <<"5","4","1","-">>, <<"5","5","0","-">>, <<"5","6","3","-">>, <<"5","7","2","-">>,
    <<"6","0","6","+">>, <<"6","1","7","+">>, <<"6","2","4","-">>, <<"6","3","5","-">>, <<"6","4","2","+">>, <<"6","5","3","+">>, <<"6","6","0","-">>, <<"6","7","1","-">>,
    <<"7","0","0","+">>, <<"7","1","1","+">>, <<"7","2","2","+">>, <<"7","3","3","+">>, <<"7","4","4","+">>, <<"7","5","5","+">>, <<"7","6","6","+">>, <<"7","7","7","+">>
  >>

\* int() of one character (line 110); -1 stands for ValueError.
DigitValue(c) ==
  CASE c = "0" -> 0 [] c = "1" -> 1 [] c = "2" -> 2 [] c = "3" -> 3
    [] c = "4" -> 4 [] c = "5" -> 5 [] c = "6" -> 6 [] c = "7" -> 7
    [] c = "8" -> 8 [] c = "9" -> 9 [] OTHER -> 0 - 1

\* Line 110: ijkc[:-1].
TokenIndexCharsShort(tok) == SubSeq(tok, 1, Len(tok) - 2)
TokenIndexChars(tok) == SubSeq(tok, 1, Len(tok) - 1)
\* Line 110: tuple(map(int, ...)).
TokenIndex(tok) ==
  LET cs == TokenIndexChars(tok) IN [n \in 1..Len(cs) |-> DigitValue(cs[n])]
\* Line 111: +1 if ijkc[-1] == '+' else -1.
TokenSign(tok) == IF tok[Len(tok)] = "+" THEN 1 ELSE 0 - 1

\* int() raises ValueError on a character that is no digit.
IntParses(tok) ==
  LET cs == TokenIndexChars(tok) IN \A n \in 1..Len(cs) : DigitValue(cs[n]) >= 0
\* numpy raises IndexError for an index beyond the axis or too many indices.
IndexInBoundsRankOnly(ijk) == Len(ijk) <= 3
IndexInBounds(ijk) == Len(ijk) <= 3 /\ \A n \in 1..Len(ijk) : ijk[n] \in R8
\* Line 111: ret[ijk] = value; a tuple shorter than the rank stores a slice.
ArrayStore(arr, ijk, value) ==
  [i \in R8 |-> [j \in R8 |-> [k \in R8 |->
     IF \A n \in 1..Len(ijk) : <<i, j, k>>[n] = ijk[n] THEN value ELSE arr[i][j][k]]]]

Sum8(f) == f[0] + f[1] + f[2] + f[3] + f[4] + f[5] + f[6] + f[7]

\* 0.5 * (x - y), lines 70-72 and 75-77.
HalfSum(x, y) == <<x + y, 2>>
HalfDifference(x, y) == <<x - y, 2>>

\* Lines 70-72: einsum('isc,jSc->ijsS') and einsum('jsc,iSc->ijsS').
GammaVVSS(vsc) ==
  [i \in R8 |-> [j \in R8 |-> [s \in R8 |-> [S \in R8 |->
     LET first == [c \in R8 |-> vsc[i][s][c] * vsc[j][S][c]]
         second == [c \in R8 |-> vsc[j][s][c] * vsc[i][S][c]]
     IN  HalfDifference(Sum8(first), Sum8(second))]]]]
\* Lines 75-77: einsum('isc,jsC->ijcC') and einsum('jsc,isC->ijcC').
GammaVVCC(vsc) ==
  [i \in R8 |-> [j \in R8 |-> [c \in R8 |-> [C \in R8 |->
     LET first == [s \in R8 |-> vsc[i][s][c] * vsc[j][s][C]]
         second == [s \in R8 |-> vsc[j][s][c] * vsc[i][s][C]]
     IN  HalfDifference(Sum8(first), Sum8(second))]]]]

BuildInitWith(table) ==
  /\ entries = table
  /\ entry_no = 0
  /\ gamma_vsc = <<>>
  /\ gamma_vvss = <<>>
  /\ gamma_vvcc = <<>>
  /\ m_35_8_8 = <<>>
  /\ m_28_8_8 = <<>>
  /\ t_aij = <<>>
  /\ su8_no = 0
  /\ build_pc = "start"

\* Lines 212, 64, 99-108: Spin8() calls _get_gamma_vsc; ret = zeros([8, 8, 8]).
GammaAlloc ==
  /\ build_pc = "start"
  /\ gamma_vsc' = [i \in R8 |-> [j \in R8 |-> [k \in R8 |-> 0]]]
  /\ build_pc' = "gamma"
  /\ UNCHANGED <<entries, entry_no, gamma_vvss, gamma_vvcc,
                 m_35_8_8, m_28_8_8, t_aij, su8_no>>

\* Lines 109-111: one iteration over the tokens.  An exception leaves the
\* module-level call of line 212, which ends the program.
GammaEntry ==
  /\ build_pc = "gamma"
  /\ entry_no < Len(entries)
  /\ LET tok == entries[entry_no + 1] IN
       IF IntParses(tok) /\ IndexInBounds(TokenIndex(tok))
       THEN /\ gamma_vsc' = ArrayStore(gamma_vsc, TokenIndex(tok), TokenSign(tok))
            /\ entry_no' = entry_no + 1
            /\ build_pc' = build_pc
       ELSE /\ build_pc' = "fault"
            /\ UNCHANGED <<gamma_vsc, entry_no>>
  /\ UNCHANGED <<entries, gamma_vvss, gamma_vvcc, m_35_8_8, m_28_8_8, t_aij, su8_no>>

\* Lines 112 and 64-77: return ret; the 2-form tensors are derived.
Spin8Derive ==
  /\ build_pc = "gamma"
  /\ entry_no = Len(entries)
  /\ gamma_vvss' = GammaVVSS(gamma_vsc)
  /\ gamma_vvcc' = GammaVVCC(gamma_vsc)
  /\ build_pc' = "su8_alloc"
  /\ UNCHANGED <<entries, entry_no, gamma_vsc, m_35_8_8, m_28_8_8, t_aij, su8_no>>

(***************************************************************************)
(* SU8, lines 115-145.  A complex number is <<re, im>>.                    *)
(***************************************************************************)
Complex(re, im) == <<re, im>>
CMul(x, y) == <<x[1] * y[1] - x[2] * y[2], x[1] * y[2] + x[2] * y[1]>>

\* Line 121: [(i, j) for i in range(8) for j in range(8) if i < j].
RECURSIVE IjFrom(_)
IjFrom(k) ==
  IF k = 8 * 8 THEN <<>>
  ELSE (IF k \div 8 < k % 8 THEN <<<<k \div 8, k % 8>>>> ELSE <<>>) \o IjFrom(k + 1)
ij_map == IjFrom(0)

Gen35 == 0..34
Gen28 == 0..27
Gen63 == 0..62
Zeros(gens) == [a \in gens |-> [i \in R8 |-> [j \in R8 |-> Complex(0, 0)]]]

\* Lines 140-141: t_aij[a + 35, i, j] = -1.0; t_aij[a + 35, j, i] = 1.0.
AntiGeneratorFlipped(t, a, i, j) ==
  [t EXCEPT ![a + 35][i][j] = Complex(1, 0),
            ![a + 35][j][i] = Complex(0 - 1, 0)]
AntiGenerator(t, a, i, j) ==
  [t EXCEPT ![a + 35][i][j] = Complex(0 - 1, 0),
            ![a + 35][j][i] = Complex(1, 0)]

\* Lines 137-138: t_aij = zeros([63, 8, 8]); t_aij[:35, :, :] = 1.0j * m_35_8_8.
SymGenerators(m35) ==
  [a \in Gen63 |-> [i \in R8 |-> [j \in R8 |->
     IF a \in Gen35 THEN CMul(Complex(0, 1), m35[a][i][j]) ELSE Complex(0, 0)]]]

\* Lines 213, 121-127: SU8(); ij_map and the zero arrays.
SU8Alloc ==
  /\ build_pc = "su8_alloc"
  /\ m_35_8_8' = Zeros(Gen35)
  /\ m_28_8_8' = Zeros(Gen28)
  /\ su8_no' = 0
  /\ build_pc' = "su8_diag"
  /\ UNCHANGED <<entries, entry_no, gamma_vsc, gamma_vvss, gamma_vvcc, t_aij>>

\* Lines 128-130: one iteration over n in range(7).
SU8Diag ==
  /\ build_pc = "su8_diag"
  /\ LET n == su8_no IN
       m_35_8_8' = [m_35_8_8 EXCEPT ![n][n][n] = Complex(1, 0),
                                    ![n][n + 1][n + 1] = Complex(0 - 1, 0)]
  /\ IF su8_no + 1 < 7
     THEN su8_no' = su8_no + 1 /\ build_pc' = build_pc
     ELSE su8_no' = 0 /\ build_pc' = "su8_pair"
  /\ UNCHANGED <<entries, entry_no, gamma_vsc, gamma_vvss, gamma_vvcc, m_28_8_8, t_aij>>

\* Lines 131-134: one iteration over enumerate(ij_map).
SU8Pair ==
  /\ build_pc = "su8_pair"
  /\ LET a == su8_no
         m == ij_map[su8_no + 1][1]
         n == ij_map[su8_no + 1][2]
     IN  /\ m_35_8_8' = [m_35_8_8 EXCEPT ![a + 7][n][m] = Complex(1, 0),
                                           ![a + 7][m][n] = Complex(1, 0)]
         /\ m_28_8_8' = [m_28_8_8 EXCEPT ![a][m][n] = Complex(1, 0),
                                           ![a][n][m] = Complex(0 - 1, 0)]
  /\ IF su8_no + 1 < Len(ij_map)
     THEN su8_no' = su8_no + 1 /\ build_pc' = build_pc
     ELSE su8_no' = 0 /\ build_pc' = "su8_t"
  /\ UNCHANGED <<entries, entry_no, gamma_vsc, gamma_vvss, gamma_vvcc, t_aij>>

\* Lines 137-138.
SU8Scale ==
  /\ build_pc = "su8_t"
  /\ t_aij' = SymGenerators(m_35_8_8)
  /\ build_pc' = "su8_anti"
  /\ UNCHANGED <<entries, entry_no, gamma_vsc, gamma_vvss, gamma_vvcc,
                 m_35_8_8, m_28_8_8, su8_no>>

\* Lines 139-145: one iteration over enumerate(ij_map); after the last one
\* the arrays are stored on the object.
SU8Anti ==
  /\ build_pc = "su8_anti"
  /\ t_aij' = AntiGenerator(t_aij, su8_no, ij_map[su8_no + 1][1], ij_map[su8_no + 1][2])
  /\ IF su8_no + 1 < Len(ij_map)
     THEN su8_no' = su8_no + 1 /\ build_pc' = build_pc
     ELSE su8_no' = su8_no + 1 /\ build_pc' = "built"
  /\ UNCHANGED <<entries, entry_no, gamma_vsc, gamma_vvss, gamma_vvcc,
                 m_35_8_8, m_28_8_8>>

BuildIdle ==
  /\ entries = <<>>
  /\ entry_no = 0
  /\ gamma_vsc = <<>>
  /\ gamma_vvss = <<>>
  /\ gamma_vvcc = <<>>
  /\ m_35_8_8 = <<>>
  /\ m_28_8_8 = <<>>
  /\ t_aij = <<>>
  /\ su8_no = 0
  /\ build_pc = "idle"

(***************************************************************************)
(* get_proj_35_8888(want_selfdual), lines 216-244.  proj_ret[a] holds the  *)
(* entries of ret[a] stored so far; every other entry of the array is the  *)
(* 0.0 numpy.zeros put there (line 222).  The returned array is a new      *)
(* array, proj_out[a][i][j][k][l], of rationals <<n, 24>>.                 *)
(***************************************************************************)
LexLess(x, y) ==
  \E n \in 1..Len(x) : x[n] < y[n] /\ \A k \in 1..(n - 1) : x[k] = y[k]
\* The order in which itertools emits the tuples of a set: lexicographic.
Emitted(S) ==
  [k \in 1..Cardinality(S) |->
     CHOOSE t \in S : Cardinality({u \in S : LexLess(u, t)}) = k - 1]

\* itertools.combinations(range(8), 4), line 229.
combinations_8_4 ==
  Emitted({t \in Idx4 : t[1] < t[2] /\ t[2] < t[3] /\ t[3] < t[4]})
\* itertools.permutations(range(4)), line 232.
permutations_4 == Emitted(PermutationsOf(4))

Contains(t, x) == \E n \in 1..Len(t) : t[n] = x
\* Line 225: tuple(n for n in range(8) if n not in ijkl).
RECURSIVE ComplementFrom(_, _)
ComplementFrom(ijkl, n) ==
  IF n = 8 THEN <<>>
  ELSE (IF Contains(ijkl, n) THEN <<>> ELSE <<n>>) \o ComplementFrom(ijkl, n + 1)
\* Lines 224-227.
get_selfdual(sign_selfdual, ijkl) ==
  LET mnpq == ComplementFrom(ijkl, 0)
  IN  <<sign_selfdual * permutation_sign(ijkl \o mnpq), ijkl, mnpq>>
\* Lines 228-230: the combinations that contain the index 0.
HasZero(t) == Contains(t, 0)
selfduals(sign_selfdual) ==
  LET kept == SelectSeq(combinations_8_4, HasZero)
  IN  [k \in 1..Len(kept) |-> get_selfdual(sign_selfdual, kept[k])]
selfduals_plus == selfduals(1)
selfduals_minus == selfduals(0 - 1)

ArrayAt(arr, a, t) == IF t \in DOMAIN arr[a] THEN arr[a][t] ELSE 0
Store(slice, t, value) == [u \in DOMAIN slice \cup {t} |-> IF u = t THEN value ELSE slice[u]]
Pick(t, abcd) == <<t[abcd[1] + 1], t[abcd[2] + 1], t[abcd[3] + 1], t[abcd[4] + 1]>>

\* Lines 233-243: the two stores of one abcd.
ScatterUnsigned(slice, sign_sd, ijkl, mnpq, abcd) ==
  LET sign_abcd == permutation_sign(abcd)
  IN  Store(Store(slice, Pick(ijkl, abcd), sign_abcd), Pick(mnpq, abcd), sign_sd)
Scatter(slice, sign_sd, ijkl, mnpq, abcd) ==
  LET sign_abcd == permutation_sign(abcd)
  IN  Store(Store(slice, Pick(ijkl, abcd), sign_abcd),
            Pick(mnpq, abcd), sign_abcd * sign_sd)

ProjInit ==
  /\ want_selfdual \in BOOLEAN
  /\ proj_ret = <<>>
  /\ num_sd = 0
  /\ abcd_no = 0
  /\ proj_pc = "start"
  /\ proj_out = <<>>

\* Lines 221-230: sign_selfdual, ret = zeros, the list selfduals.
ProjAlloc ==
  /\ proj_pc = "start"
  /\ proj_ret' = [a \in Gen35 |-> <<>>]
  /\ num_sd' = 0
  /\ abcd_no' = 0
  /\ proj_pc' = "scatter"
  /\ UNCHANGED <<want_selfdual, proj_out>>

\* Lines 231-243: one iteration of the inner loop.
ProjScatter ==
  /\ proj_pc = "scatter"
  /\ LET sds == IF want_selfdual THEN selfduals_plus ELSE selfduals_minus
         sd == sds[num_sd + 1]
         abcd == permutations_4[abcd_no + 1]
     IN  /\ proj_ret' = [proj_ret EXCEPT
                           ![num_sd] = Scatter(@, sd[1], sd[2], sd[3], abcd)]
         /\ IF abcd_no + 1 < Len(permutations_4)
            THEN abcd_no' = abcd_no + 1 /\ num_sd' = num_sd /\ proj_pc' = proj_pc
            ELSE /\ abcd_no' = 0
                 /\ num_sd' = num_sd + 1
                 /\ proj_pc' = IF num_sd + 1 < Len(sds) THEN proj_pc ELSE "return"
  /\ UNCHANGED <<want_selfdual, proj_out>>

\* Line 244: return ret / 24.0.
ProjReturn ==
  /\ proj_pc = "return"
  /\ proj_out' = [a \in Gen35 |-> [i \in R8 |-> [j \in R8 |-> [k \in R8 |-> [l \in R8 |->
                     <<ArrayAt(proj_ret, a, <<i, j, k, l>>), 24>>]]]]]
  /\ proj_pc' = "done"
  /\ UNCHANGED <<want_selfdual, proj_ret, num_sd, abcd_no>>

\* The entry ret[a, t] of the returned array.
ProjOutAt(a, t) == proj_out[a][t[1]][t[2]][t[3]][t[4]]

ProjIdle ==
  /\ want_selfdual = FALSE
  /\ proj_ret = <<>>
  /\ num_sd = 0
  /\ abcd_no = 0
  /\ proj_pc = "idle"
  /\ proj_out = <<>>

(***************************************************************************)
(* call_with_critical_point_scanner, lines 315-345.  A 70-vector is a      *)
(* point of 0..MaxPoint, 0 being numpy.zeros([70]).  The two collaborators *)
(* are deterministic functions the model leaves open: normal[seed, scale]  *)
(* is what RandomState(seed).normal(scale=scale, size=[70]) draws, and     *)
(* minimize[v] is where opt.minimize leaves the variable when it starts    *)
(* at v.  The graph's outputs are terms over the variable's value.         *)
(***************************************************************************)
Points == 0..MaxPoint
SessSeeds == 1..MaxSessSeed
Scales == {1, ScaleArg}
ZeroVector == 0

\* Line 343: sess.run([t_potential, t_stationarity, t_v70]).
SessRun(v) == [potential |-> <<"potential", v>>,
               stationarity |-> <<"stationarity", v>>,
               v70 |-> v]

\* Line 341: sess.run([op_assign_input], feed_dict={t_input: v70}).
AssignInputSkipped(variable, v70) == variable
AssignInput(variable, v70) == v70

\* Lines 339-344: the closure, from the variable's value before the call
\* to its value after it and the triple returned.
scanner(variable, rng, opt, s, scale) ==
  LET v70 == rng[<<s, scale>>]
      assigned == AssignInput(variable, v70)
      optimized == opt[assigned]
  IN  [t_v70 |-> optimized, n_ret |-> SessRun(optimized)]

\* Lines 324-337: the graph, the variable at zeros, the session.
SessInit ==
  /\ normal \in [SessSeeds \X Scales -> Points]
  /\ minimize \in [Points -> Points]
  /\ t_v70 = ZeroVector
  /\ n_ret = <<>>
  /\ last_call = <<>>
  /\ sess_pc = "session"

\* Lines 338-344: f calls scanner(seed, scale).
Scanner ==
  /\ sess_pc = "session"
  /\ \E s \in SessSeeds : \E scale \in Scales :
       LET r == scanner(t_v70, normal, minimize, s, scale) IN
       /\ t_v70' = r.t_v70
       /\ n_ret' = r.n_ret
       /\ last_call' = <<s, scale>>
  /\ UNCHANGED <<normal, minimize, sess_pc>>

SessIdle ==
  /\ normal = <<>>
  /\ minimize = <<>>
  /\ t_v70 = ZeroVector
  /\ n_ret = <<>>
  /\ last_call = <<>>
  /\ sess_pc = "idle"

(***************************************************************************)
(* The specifications, one per component.                                  *)
(***************************************************************************)
\* scan_many as the module calls it (line 365), for any count.
InitScan ==
  /\ \E n \in 0..MaxProduce : ScanInitWith(n, Threshold)
  /\ PermIdle /\ BuildIdle /\ ProjIdle /\ SessIdle
\* The driver of the design, whose threshold and target are parameters.
InitDriver ==
  /\ \E n \in 1..MaxProduce : \E thr \in {Threshold, Inf} : ScanInitWith(n, thr)
  /\ PermIdle /\ BuildIdle /\ ProjIdle /\ SessIdle
NextScan ==
  \/ ScanAttempt /\ UNCHANGED <<permVars, buildVars, projVars, sessVars>>
  \/ ScanReturn /\ UNCHANGED <<permVars, buildVars, projVars, sessVars>>
SpecScan == InitScan /\ [][NextScan]_vars
SpecDriver == InitDriver /\ [][NextScan]_vars

InitPerm == PermInit /\ ScanIdle /\ BuildIdle /\ ProjIdle /\ SessIdle
NextPerm ==
  \/ PermCopy /\ UNCHANGED <<scanVars, buildVars, projVars, sessVars>>
  \/ PermSwap /\ UNCHANGED <<scanVars, buildVars, projVars, sessVars>>
  \/ PermAdvance /\ UNCHANGED <<scanVars, buildVars, projVars, sessVars>>
  \/ PermReturn /\ UNCHANGED <<scanVars, buildVars, projVars, sessVars>>
SpecPerm == InitPerm /\ [][NextPerm]_vars

\* The tables a build can be given: the literal one, and it with an entry
\* missing, a position written twice, an entry too many, an index beyond
\* the axis, and a character that is no digit.
Tables ==
  { Entries,
    SubSeq(Entries, 1, Len(Entries) - 1),
    [Entries EXCEPT ![2] = Entries[1]],
    Append(Entries, <<"0", "0", "7", "-">>),
    [Entries EXCEPT ![5] = <<"0", "8", "3", "-">>],
    [Entries EXCEPT ![3] = <<"0", "x", "5", "-">>] }
InitBuild == BuildInitWith(Entries) /\ ScanIdle /\ PermIdle /\ ProjIdle /\ SessIdle
InitTable ==
  /\ \E table \in Tables : BuildInitWith(table)
  /\ ScanIdle /\ PermIdle /\ ProjIdle /\ SessIdle
NextBuild ==
  \/ GammaAlloc /\ UNCHANGED <<scanVars, permVars, projVars, sessVars>>
  \/ GammaEntry /\ UNCHANGED <<scanVars, permVars, projVars, sessVars>>
  \/ Spin8Derive /\ UNCHANGED <<scanVars, permVars, projVars, sessVars>>
  \/ SU8Alloc /\ UNCHANGED <<scanVars, permVars, projVars, sessVars>>
  \/ SU8Diag /\ UNCHANGED <<scanVars, permVars, projVars, sessVars>>
  \/ SU8Pair /\ UNCHANGED <<scanVars, permVars, projVars, sessVars>>
  \/ SU8Scale /\ UNCHANGED <<scanVars, permVars, projVars, sessVars>>
  \/ SU8Anti /\ UNCHANGED <<scanVars, permVars, projVars, sessVars>>
SpecBuild == InitBuild /\ [][NextBuild]_vars
SpecTable == InitTable /\ [][NextBuild]_vars

InitProj == ProjInit /\ ScanIdle /\ PermIdle /\ BuildIdle /\ SessIdle
NextProj ==
  \/ ProjAlloc /\ UNCHANGED <<scanVars, permVars, buildVars, sessVars>>
  \/ ProjScatter /\ UNCHANGED <<scanVars, permVars, buildVars, sessVars>>
  \/ ProjReturn /\ UNCHANGED <<scanVars, permVars, buildVars, sessVars>>
SpecProj == InitProj /\ [][NextProj]_vars

InitSession == SessInit /\ ScanIdle /\ PermIdle /\ BuildIdle /\ ProjIdle
NextSession == Scanner /\ UNCHANGED <<scanVars, permVars, buildVars, projVars>>
SpecSession == InitSession /\ [][NextSession]_vars

(***************************************************************************)
(* The claims.                                                             *)
(***************************************************************************)
ScannedSoFar == [k \in 1..Len(calls) |-> calls[k].scanned]
BelowThreshold(r) ==
  r.stationarity[1] = "fin" /\ r.stationarity[2] < ThresholdUnits
NonFiniteStationarity(r) == r.stationarity[1] \in {"inf", "nan"}
AcceptedAmong(k) == Len(SelectSeq(SubSeq(ScannedSoFar, 1, k), BelowThreshold))

\* C1: scan_many calls the scanner with seeds 1, 2, 3, ... and scale 2.0;
\* after any number of attempts the list holds exactly the results whose
\* stationarity was below 1e-3, in seed order; the loop ends at the first
\* attempt that brings the list to num_to_produce entries, and the list
\* returned has num_to_produce entries, never more.
C1_ScanManyContract ==
  /\ seed = Len(calls)
  /\ \A k \in 1..Len(calls) : calls[k].seed = k /\ calls[k].scale = 2
  /\ ret = SelectSeq(ScannedSoFar, BelowThreshold)
  /\ Len(ret) <= num_to_produce
  /\ scan_pc = "done" =>
       /\ returned = ret
       /\ Len(returned) = num_to_produce
       /\ \A k \in 0..(Len(calls) - 1) : AcceptedAmong(k) < num_to_produce
C1_Witness ==
  /\ scan_pc = "done"
  /\ num_to_produce = 2
  /\ Len(calls) = 3
  /\ ~BelowThreshold(calls[2].scanned)
  /\ returned = <<calls[1].scanned, calls[3].scanned>>

Inversions(p) ==
  Cardinality({ij \in (1..Len(p)) \X (1..Len(p)) : ij[1] < ij[2] /\ p[ij[1]] > p[ij[2]]})
\* C4: on every permutation p of 0..n-1 the swap loop of permutation_sign
\* ends (at most len(p) swaps), leaves p as it was, and returns +1 for an
\* even permutation and -1 for an odd one; on {0,1,2} the identity and the
\* two 3-cycles give +1 and the three transpositions give -1.
C4_PermutationSign ==
  /\ swaps <= Len(perm_in)
  /\ perm_n <= Len(perm_in)
  /\ lists.p = perm_in
  /\ perm_pc = "done" =>
       /\ parity = IF Inversions(perm_in) % 2 = 0 THEN 1 ELSE 0 - 1
       /\ perm_in \in {<<0, 1, 2>>, <<1, 2, 0>>, <<2, 0, 1>>} => parity = 1
       /\ perm_in \in {<<1, 0, 2>>, <<0, 2, 1>>, <<2, 1, 0>>} => parity = 0 - 1
C4_Witness ==
  /\ perm_pc = "done"
  /\ perm_in = <<1, 2, 3, 0>>
  /\ swaps = 3
  /\ parity = 0 - 1

GammaBuilt == build_pc \in {"su8_alloc", "su8_diag", "su8_pair", "su8_t", "su8_anti", "built"}
NonZero3(arr) == {t \in Idx3 : arr[t[1]][t[2]][t[3]] # 0}

\* C5: the gamma_vsc array built from the literal table has, for each of
\* the 64 (vector, spinor) pairs, exactly one cospinor index with a nonzero
\* entry, which is +1 or -1; all other entries are zero; there are 64
\* nonzero entries and no entry of the table overwrites another.
C5_GammaOnePerRow ==
  /\ build_pc = "gamma" => Cardinality(NonZero3(gamma_vsc)) = entry_no
  /\ GammaBuilt =>
       /\ entry_no = 64
       /\ \A v, s \in R8 : Cardinality({c \in R8 : gamma_vsc[v][s][c] # 0}) = 1
       /\ \A i, j, k \in R8 : gamma_vsc[i][j][k] \in {0 - 1, 0, 1}
       /\ Cardinality(NonZero3(gamma_vsc)) = 64
C5_Witness ==
  /\ build_pc = "built"
  /\ gamma_vsc[0][0][7] = 1
  /\ gamma_vsc[0][1][6] = 0 - 1
  /\ gamma_vsc[0][0][6] = 0

IndexDigits == {"0", "1", "2", "3", "4", "5", "6", "7"}
\* A token int() or the array store rejects: a character that is no octal
\* digit among the index characters, or more than three of them.
BadToken(tok) ==
  \/ Len(tok) > 4
  \/ \E n \in 1..(Len(tok) - 1) : tok[n] \notin IndexDigits
Positions(table) == {SubSeq(table[k], 1, 3) : k \in 1..Len(table)}
Malformed(table) ==
  \/ Len(table) # 64
  \/ Cardinality(Positions(table)) # Len(table)
  \/ \E k \in 1..Len(table) : BadToken(table[k])
Neg(x) == <<0 - x[1], x[2]>>
\* C8: gamma_vvss[i,j,s,S] = -gamma_vvss[j,i,s,S] and gamma_vvcc[i,j,c,C] =
\* -gamma_vvcc[j,i,c,C] for all indices, both being halves of a difference.
C8_TwoFormsAntisymmetric ==
  GammaBuilt =>
    \A i, j, s, S \in R8 :
      /\ gamma_vvss[i][j][s][S] = Neg(gamma_vvss[j][i][s][S])
      /\ gamma_vvcc[i][j][s][S] = Neg(gamma_vvcc[j][i][s][S])
      /\ gamma_vvss[i][j][s][S][2] = 2 /\ gamma_vvcc[i][j][s][S][2] = 2
C8_Witness ==
  /\ GammaBuilt
  /\ gamma_vvss[0][1][0][6] = <<0 - 2, 2>> /\ gamma_vvss[1][0][0][6] = <<2, 2>>
  /\ gamma_vvcc[0][1][1][7] = <<0 - 2, 2>> /\ gamma_vvcc[1][0][1][7] = <<2, 2>>

Pairs == {pr \in R8 \X R8 : pr[1] < pr[2]}
\* The place of a pair in the lexicographic order of the pairs i < j.
PairRank(pr) ==
  Cardinality({o \in Pairs : o[1] < pr[1] \/ (o[1] = pr[1] /\ o[2] < pr[2])})
\* The symmetric traceless basis matrix number a, entry (i, j).
Basis35(a, i, j) ==
  IF a < 7
  THEN IF i = a /\ j = a THEN 1 ELSE IF i = a + 1 /\ j = a + 1 THEN 0 - 1 ELSE 0
  ELSE LET pr == CHOOSE o \in Pairs : PairRank(o) = a - 7
       IN  IF <<i, j>> = pr \/ <<j, i>> = pr THEN 1 ELSE 0
SymmetricPart ==
  \A a \in Gen35 : \A i, j \in R8 : t_aij[a][i][j] = <<0, Basis35(a, i, j)>>
AntisymmetricPart(at_ij, at_ji) ==
  \A pr \in Pairs : \A i, j \in R8 :
    t_aij[35 + PairRank(pr)][i][j] =
      IF <<i, j>> = pr THEN <<at_ij, 0>>
      ELSE IF <<j, i>> = pr THEN <<at_ji, 0>>
      ELSE <<0, 0>>
\* C9 as stated: t_aij[0..34] are the symmetric traceless basis matrices
\* times i, and t_aij[35 + a], for the a-th pair (i, j), has +1 at (i, j),
\* -1 at (j, i) and zero elsewhere.
C9_GeneratorsPlusAtIJ ==
  build_pc = "built" => SymmetricPart /\ AntisymmetricPart(1, 0 - 1)
\* C9 as amended: t_aij[0..34] are the symmetric traceless basis matrices
\* times i, and t_aij[35 + a], for the a-th pair (i, j), has -1 at (i, j),
\* +1 at (j, i) and zero elsewhere.
C9_GeneratorsMinusAtIJ ==
  build_pc = "built" => SymmetricPart /\ AntisymmetricPart(0 - 1, 1)
C9_Witness ==
  /\ build_pc = "built"
  /\ t_aij[0][0][0] = <<0, 1>>
  /\ t_aij[7][1][0] = <<0, 1>>
  /\ t_aij[35][0][1] = <<0 - 1, 0>>
  /\ t_aij[62][7][6] = <<1, 0>>

Perms4 == PermutationsOf(4)
Distinct4(t) == \A m, n \in 1..4 : t[m] = t[n] => m = n
\* sign times the rational x.
Times(sign, x) == <<sign * x[1], x[2]>>
\* C7: for want_selfdual TRUE and FALSE, every a in 0..34, every index
\* tuple t and every permutation s of four positions, the returned array
\* at the s-permuted tuple is permutation_sign(s) times its entry at t, and
\* an entry with a repeated index is zero.
C7_ProjectorAntisymmetric ==
  proj_pc = "done" =>
    /\ \A s \in Perms4 :
         LET sign == permutation_sign(s) IN
         \A a \in Gen35 : \A t \in Idx4 :
           ProjOutAt(a, Pick(t, s)) = Times(sign, ProjOutAt(a, t))
    /\ \A a \in Gen35 : \A t \in Idx4 :
         ~Distinct4(t) => ProjOutAt(a, t) = <<0, 24>>
C7_Witness ==
  /\ proj_pc = "done"
  /\ ~want_selfdual
  /\ ProjOutAt(0, <<0, 1, 2, 3>>) = <<1, 24>>
  /\ ProjOutAt(0, <<1, 0, 2, 3>>) = <<0 - 1, 24>>
  /\ ProjOutAt(0, <<4, 5, 6, 7>>) = <<0 - 1, 24>>
  /\ ProjOutAt(0, <<4, 5, 7, 6>>) = <<1, 24>>
  /\ ProjOutAt(34, <<0, 5, 6, 7>>) = <<1, 24>>

\* C10: within one session the triple scanner(seed, scale) returns depends
\* on (seed, scale) alone: after any sequence of other attempts it is the
\* triple the same call returns as the first attempt of the session, whose
\* variable is still the zero vector.
C10_AttemptsIndependent ==
  last_call # <<>> =>
    n_ret = scanner(ZeroVector, normal, minimize, last_call[1], last_call[2]).n_ret
C10_Witness ==
  /\ last_call = <<1, ScaleArg>>
  /\ t_v70 # ZeroVector
  /\ normal[<<1, ScaleArg>>] # normal[<<2, ScaleArg>>]
  /\ minimize[0] # minimize[1]
  /\ n_ret.v70 = minimize[normal[<<1, ScaleArg>>]]

====
